---- MODULE Spec2Model ----
(***************************************************************************)
(* A model of kcwater.py: the KCWater session client (login,               *)
(* get_usage_hourly), the module-level date globals, and the charge-date   *)
(* filter (valid_charge_date, strip_future_data).                          *)
(*                                                                         *)
(* Python strings are modelled as sequences of one-character strings, so   *)
(* that formatting (strftime, str, format) and parsing (strptime, split,   *)
(* int) are computed character by character.  JSON objects and Python      *)
(* dicts are functions from key names to values; a key that is not in the  *)
(* DOMAIN is a missing key (KeyError on subscript).                        *)
(***************************************************************************)
EXTENDS Integers, Sequences, FiniteSets, TLC

VARIABLES
    loggedIn,        \* self.loggedIn
    headers,         \* self.headers (dict)
    account_number,  \* self.account_number
    customer_id,     \* self.customer_id
    service_id,      \* self.service_id
    access_token,    \* self.access_token
    account_port,    \* self.account_port
    today,           \* module global today (bound when the module is loaded)
    now,             \* module global now (bound when the module is loaded)
    clock,           \* the calendar date of the running process
    sent,            \* the HTTP requests issued by the last operation
    call,            \* the last operation: its name, inputs and outcome
    history_obj,     \* the argument of the last valid_charge_date call
    settled,         \* the outcome of the last valid_charge_date call
    dataset,         \* the argument of the last strip_future_data call
    stripped         \* the outcome of the last strip_future_data call

vars == <<loggedIn, headers, account_number, customer_id, service_id,
          access_token, account_port, today, now, clock, sent, call,
          history_obj, settled, dataset, stripped>>

session == <<loggedIn, headers, account_number, customer_id, service_id,
             access_token, account_port>>

globals == <<today, now>>

filter == <<history_obj, settled, dataset, stripped>>

(***************************************************************************)
(* Bounds of the model.                                                    *)
(***************************************************************************)
MaxHist == 2        \* longest history array of an hourly-usage response
MaxDays == 1        \* calendar days the process runs past its load date
TicksPerHour == 2   \* instants distinguished within one hour
MaxData == 2        \* longest dataset given to strip_future_data

(***************************************************************************)
(* Python values.                                                          *)
(***************************************************************************)
\* Python's None (JSON null): a value that is no character string.
None == <<"<None>">>

NoneStr == <<"N", "o", "n", "e">>

\* str(v) for None and for str values.
Str(v) == IF v = None THEN NoneStr ELSE v

\* bool(v) for None and for str values.
Truthy(v) == v # None /\ v # <<>>

DigitChars == <<"0", "1", "2", "3", "4", "5", "6", "7", "8", "9">>

DigitVal ==
    [c \in {DigitChars[i] : i \in 1..10} |->
        (CHOOSE i \in 1..10 : DigitChars[i] = c) - 1]

IsDigit(c) == c \in DOMAIN DigitVal

IsDigits(s) == Len(s) > 0 /\ \A i \in 1..Len(s) : IsDigit(s[i])

RECURSIVE DigitsVal(_)
DigitsVal(s) ==
    IF s = <<>> THEN 0
    ELSE DigitsVal(SubSeq(s, 1, Len(s) - 1)) * 10 + DigitVal[s[Len(s)]]

UpperChars == <<"A", "B", "C", "D", "E", "F", "G", "H", "I", "J", "K", "L", "M",
                "N", "O", "P", "Q", "R", "S", "T", "U", "V", "W", "X", "Y", "Z">>

LowerChars == <<"a", "b", "c", "d", "e", "f", "g", "h", "i", "j", "k", "l", "m",
                "n", "o", "p", "q", "r", "s", "t", "u", "v", "w", "x", "y", "z">>

LowerOf ==
    [c \in {UpperChars[i] : i \in 1..26} |->
        LowerChars[CHOOSE i \in 1..26 : UpperChars[i] = c]]

LowerChar(c) == IF c \in DOMAIN LowerOf THEN LowerOf[c] ELSE c

\* str.lower()
Lower(s) == [i \in 1..Len(s) |-> LowerChar(s[i])]

\* str.find(sep, i - 1) + 1: the first position from i on that holds sep, or 0
\* str.split(sep) for a one-character separator: every occurrence splits,
\* empty pieces are kept.
RECURSIVE Find(_, _, _)
Find(s, sep, i) ==
    IF i > Len(s) THEN 0
    ELSE IF s[i] = sep THEN i
    ELSE Find(s, sep, i + 1)

RECURSIVE Split(_, _)
Split(s, sep) ==
    LET k == Find(s, sep, 1)
    IN  IF k = 0 THEN <<s>>
        ELSE <<SubSeq(s, 1, k - 1)>> \o Split(SubSeq(s, k + 1, Len(s)), sep)

\* int(s) for a str: the decimal digits' value; NoInt stands for ValueError.
NoInt == -1

ParseInt(s) == IF IsDigits(s) THEN DigitsVal(s) ELSE NoInt

(***************************************************************************)
(* datetime: the calendar, strftime and strptime.                          *)
(***************************************************************************)
MonthAbbr == << <<"J", "a", "n">>, <<"F", "e", "b">>, <<"M", "a", "r">>,
                <<"A", "p", "r">>, <<"M", "a", "y">>, <<"J", "u", "n">>,
                <<"J", "u", "l">>, <<"A", "u", "g">>, <<"S", "e", "p">>,
                <<"O", "c", "t">>, <<"N", "o", "v">>, <<"D", "e", "c">> >>

IsLeap(y) == y % 4 = 0 /\ (y % 100 # 0 \/ y % 400 = 0)

DaysInMonth(y, m) ==
    IF m = 2 THEN (IF IsLeap(y) THEN 29 ELSE 28)
    ELSE IF m \in {4, 6, 9, 11} THEN 30 ELSE 31

RECURSIVE DaysBeforeMonth(_, _)
DaysBeforeMonth(y, m) ==
    IF m = 1 THEN 0 ELSE DaysBeforeMonth(y, m - 1) + DaysInMonth(y, m - 1)

\* date.toordinal(): days since 0001-01-01, which is day 1.
Ordinal(d) ==
    LET y == d.year - 1
    IN  y * 365 + (y \div 4) - (y \div 100) + (y \div 400)
          + DaysBeforeMonth(d.year, d.month) + d.day

\* date + timedelta(days=1)
NextDay(d) ==
    IF d.day < DaysInMonth(d.year, d.month)
    THEN [d EXCEPT !.day = d.day + 1]
    ELSE IF d.month < 12
    THEN [year |-> d.year, month |-> d.month + 1, day |-> 1]
    ELSE [year |-> d.year + 1, month |-> 1, day |-> 1]

TicksPerDay == 24 * TicksPerHour

\* A datetime is the number of ticks since 0001-01-01 00:00 minus one day.
DateTime(d, hour, tick) == Ordinal(d) * TicksPerDay + hour * TicksPerHour + tick

\* datetime.date(), as an ordinal
DateOf(dt) == dt \div TicksPerDay

\* timedelta(hours=h)
Hours(h) == h * TicksPerHour

Pad(n, width) ==
    [i \in 1..width |->
        DigitChars[((n \div (10 ^ (width - i))) % 10) + 1]]

\* date.strftime("%d-%b-%Y")
StrftimeDBY(d) ==
    Pad(d.day, 2) \o <<"-">> \o MonthAbbr[d.month] \o <<"-">> \o Pad(d.year, 4)

\* date.strftime("%m-%d-%Y")
StrftimeMDY(d) ==
    Pad(d.month, 2) \o <<"-">> \o Pad(d.day, 2) \o <<"-">> \o Pad(d.year, 4)

NoMatch == -1

\* %d : 3[0-1]|[1-2]\d|0[1-9]|[1-9]| [1-9]
Match_d(s) ==
    LET t == IF Len(s) = 2 /\ s[1] = " " THEN SubSeq(s, 2, 2) ELSE s
        v == ParseInt(t)
    IN  IF Len(s) \in {1, 2} /\ v \in 1..31 THEN v ELSE NoMatch

\* %m : 1[0-2]|0[1-9]|[1-9]
Match_m(s) ==
    LET v == ParseInt(s)
    IN  IF Len(s) \in {1, 2} /\ v \in 1..12 THEN v ELSE NoMatch

\* %I : 1[0-2]|0[1-9]|[1-9]
Match_I(s) ==
    LET v == ParseInt(s)
    IN  IF Len(s) \in {1, 2} /\ v \in 1..12 THEN v ELSE NoMatch

\* %Y : \d\d\d\d, and a year datetime accepts
Match_Y(s) ==
    LET v == ParseInt(s)
    IN  IF Len(s) = 4 /\ v \in 1..9999 THEN v ELSE NoMatch

\* %b : the abbreviated month names, case ignored
Match_b(s) ==
    LET l == Lower(s)
    IN  IF \E m \in 1..12 : Lower(MonthAbbr[m]) = l
        THEN CHOOSE m \in 1..12 : Lower(MonthAbbr[m]) = l
        ELSE NoMatch

\* %p : am|pm, case ignored; 0 for AM, 1 for PM
Match_p(s) ==
    LET l == Lower(s)
    IN  IF l = <<"a", "m">> THEN 0
        ELSE IF l = <<"p", "m">> THEN 1
        ELSE NoMatch

ValueError == [exc |-> "ValueError"]

\* The date of the matched fields, or ValueError when a field did not match
\* or the day is out of range for the month.
MakeDate(y, m, d) ==
    IF y = NoMatch \/ m = NoMatch \/ d = NoMatch THEN ValueError
    ELSE IF d > DaysInMonth(y, m) THEN ValueError
    ELSE [exc |-> "none", date |-> [year |-> y, month |-> m, day |-> d]]

\* datetime.strptime(s, "%d-%b-%Y")
StrptimeDBY(s) ==
    LET p == Split(s, "-")
    IN  IF Len(p) # 3 THEN ValueError
        ELSE MakeDate(Match_Y(p[3]), Match_b(p[2]), Match_d(p[1]))

\* A month-day-year parse that takes the day first.
StrptimeDMY(s) ==
    LET p == Split(s, "-")
    IN  IF Len(p) # 3 THEN ValueError
        ELSE MakeDate(Match_Y(p[3]), Match_m(p[2]), Match_d(p[1]))

\* datetime.strptime(s, "%m-%d-%Y")
StrptimeMDY(s) ==
    LET p == Split(s, "-")
    IN  IF Len(p) # 3 THEN ValueError
        ELSE MakeDate(Match_Y(p[3]), Match_m(p[1]), Match_d(p[2]))

\* The 24-hour hour of a 12-hour clock reading: %I with %p.
Hour12(hour, pm) ==
    IF pm = 1 THEN (IF hour = 12 THEN 12 ELSE hour + 12)
    ELSE (IF hour = 12 THEN 0 ELSE hour)

\* datetime.strptime(s, "%m-%d-%Y %I %p"); a blank of the format matches one
\* or more blanks of the string.
StrptimeMDYIp(s) ==
    LET p == Split(s, "-")
        w == IF Len(p) = 3 THEN Split(p[3], " ") ELSE <<>>
        t == SelectSeq(w, LAMBDA x : x # <<>>)
    IN  IF Len(p) # 3 \/ Len(t) # 3 \/ w[1] = <<>> \/ w[Len(w)] = <<>>
        THEN ValueError
        ELSE LET dt == MakeDate(Match_Y(t[1]), Match_m(p[1]), Match_d(p[2]))
                 hh == Match_I(t[2])
                 pm == Match_p(t[3])
             IN  IF dt.exc # "none" \/ hh = NoMatch \/ pm = NoMatch
                 THEN ValueError
                 ELSE [exc |-> "none",
                       datetime |-> DateTime(dt.date, Hour12(hh, pm), 0)]

(***************************************************************************)
(* KCWater: the session client.                                            *)
(***************************************************************************)
EmptyDict == [k \in {} |-> None]

\* d[k] = v on a dict
Put(d, k, v) == [x \in DOMAIN d \cup {k} |-> IF x = k THEN v ELSE d[x]]

Username == <<"u", "s", "r">>

Password == <<"p", "w">>

tokenUrl == "https://my.kcwater.us/rest/oauth/token"

customer_info_url == "https://my.kcwater.us/rest/account/customer/"

hourly_usage_url == "https://my.kcwater.us/rest/usage/month/day"

BasicAuth == "Basic d2ViQ2xpZW50SWRQYXNzd29yZDpzZWNyZXQ="

Bearer == <<"B", "e", "a", "r", "e", "r", " ">>

AppJson == <<"a", "p", "p", "l", "i", "c", "a", "t", "i", "o", "n", "/",
             "j", "s", "o", "n">>

\* The fields of self that the operations read and write.
Self ==
    [loggedIn |-> loggedIn, headers |-> headers,
     account_number |-> account_number, customer_id |-> customer_id,
     service_id |-> service_id, access_token |-> access_token,
     account_port |-> account_port]

\* KCWater.__init__
NewClient ==
    [loggedIn |-> FALSE, headers |-> EmptyDict,
     account_number |-> None, customer_id |-> None,
     service_id |-> None, access_token |-> None,
     account_port |-> 1]

\* An HTTP exchange either raises (connection failure, body that is no JSON)
\* or yields the decoded JSON body.
Raises(resp) == resp.raises

TokenRequest ==
    [url |-> tokenUrl,
     headers |-> [Authorization |-> BasicAuth],
     body |-> [username |-> Str(Username), password |-> Str(Password),
               grant_type |-> "password"]]

\* KCWater._get_token: the fields of self after the call and the exception
\* that ended it, if any.
_get_token(s, resp) ==
    LET login_data == resp.json
    IN  IF Raises(resp) THEN [exc |-> "ClientError", self |-> s]
        ELSE IF "access_token" \notin DOMAIN login_data
        THEN [exc |-> "KeyError", self |-> s]
        ELSE LET s1 == [s EXCEPT !.access_token = login_data["access_token"]]
             IN  IF "user" \notin DOMAIN login_data
                    \/ "customerId" \notin DOMAIN login_data["user"]
                 THEN [exc |-> "KeyError", self |-> s1]
                 ELSE LET s2 == [s1 EXCEPT !.customer_id =
                                              login_data["user"]["customerId"]]
                          h1 == Put(s2.headers, "Authorization",
                                    Bearer \o Str(s2.access_token))
                          h2 == Put(h1, "Content-Type", AppJson)
                      IN  [exc |-> "none", self |-> [s2 EXCEPT !.headers = h2]]

CustomerInfoRequest(s) ==
    [url |-> customer_info_url,
     headers |-> s.headers,
     body |-> [customerId |-> Str(s.customer_id)]]

\* KCWater._get_customer_info
_get_customer_info(s, resp) ==
    LET customer_info == resp.json
    IN  IF Raises(resp) THEN [exc |-> "ClientError", self |-> s]
        ELSE IF "accountSummaryType" \notin DOMAIN customer_info
                \/ "services" \notin DOMAIN customer_info["accountSummaryType"]
        THEN [exc |-> "KeyError", self |-> s]
        ELSE LET services == customer_info["accountSummaryType"]["services"]
             IN  IF Len(services) = 0 THEN [exc |-> "IndexError", self |-> s]
                 ELSE IF "serviceId" \notin DOMAIN services[1]
                 THEN [exc |-> "KeyError", self |-> s]
                 ELSE LET s1 == [s EXCEPT !.service_id = services[1]["serviceId"]]
                      IN  IF "accountContext" \notin DOMAIN customer_info
                             \/ "accountNumber" \notin
                                    DOMAIN customer_info["accountContext"]
                          THEN [exc |-> "KeyError", self |-> s1]
                          ELSE [exc |-> "none",
                                self |-> [s1 EXCEPT !.account_number =
                                    customer_info["accountContext"]["accountNumber"]]]

\* A login flag that one identifier suffices to set.
LoginFlagAny(s) ==
    s.account_number # None \/ s.service_id # None
      \/ s.customer_id # None \/ s.access_token # None

\* The value login assigns to self.loggedIn.
LoginFlag(s) ==
    s.account_number # None /\ s.service_id # None
      /\ s.customer_id # None /\ s.access_token # None

\* A login that posts to the customer-info endpoint whatever became of the
\* token step.
login_continue(s, tokenResp, infoResp) ==
    LET t == _get_token(s, tokenResp)
        c == _get_customer_info(t.self, infoResp)
        reqs == <<TokenRequest, CustomerInfoRequest(t.self)>>
    IN  IF t.exc # "none" THEN [exc |-> t.exc, self |-> t.self, sent |-> reqs]
        ELSE IF c.exc # "none" THEN [exc |-> c.exc, self |-> c.self, sent |-> reqs]
        ELSE [exc |-> "none",
              self |-> [c.self EXCEPT !.loggedIn = LoginFlag(c.self)],
              sent |-> reqs]

\* A login that restores the fields of self when its second step fails.
login_rollback(s, tokenResp, infoResp) ==
    LET t == _get_token(s, tokenResp)
    IN  IF t.exc # "none"
        THEN [exc |-> t.exc, self |-> t.self, sent |-> <<TokenRequest>>]
        ELSE LET c == _get_customer_info(t.self, infoResp)
                 reqs == <<TokenRequest, CustomerInfoRequest(t.self)>>
             IN  IF c.exc # "none"
                 THEN [exc |-> c.exc, self |-> s, sent |-> reqs]
                 ELSE [exc |-> "none",
                       self |-> [c.self EXCEPT !.loggedIn = LoginFlag(c.self)],
                       sent |-> reqs]

\* A login that clears loggedIn before its first step.
login_resetting(s, tokenResp, infoResp) ==
    LET s0 == [s EXCEPT !.loggedIn = FALSE]
        t == _get_token(s0, tokenResp)
    IN  IF t.exc # "none"
        THEN [exc |-> t.exc, self |-> t.self, sent |-> <<TokenRequest>>]
        ELSE LET c == _get_customer_info(t.self, infoResp)
                 reqs == <<TokenRequest, CustomerInfoRequest(t.self)>>
             IN  IF c.exc # "none"
                 THEN [exc |-> c.exc, self |-> c.self, sent |-> reqs]
                 ELSE [exc |-> "none",
                       self |-> [c.self EXCEPT !.loggedIn = LoginFlag(c.self)],
                       sent |-> reqs]

\* KCWater.login: the fields of self afterwards, the exception that ended the
\* call, if any, and the requests issued.
login(s, tokenResp, infoResp) ==
    LET t == _get_token(s, tokenResp)
    IN  IF t.exc # "none"
        THEN [exc |-> t.exc, self |-> t.self, sent |-> <<TokenRequest>>]
        ELSE LET c == _get_customer_info(t.self, infoResp)
                 reqs == <<TokenRequest, CustomerInfoRequest(t.self)>>
             IN  IF c.exc # "none"
                 THEN [exc |-> c.exc, self |-> c.self, sent |-> reqs]
                 ELSE [exc |-> "none",
                       self |-> [c.self EXCEPT !.loggedIn = LoginFlag(c.self)],
                       sent |-> reqs]

\* str(n) for an int n >= 0
RECURSIVE StrInt(_)
StrInt(n) ==
    IF n < 10 THEN <<DigitChars[n + 1]>>
    ELSE StrInt(n \div 10) \o <<DigitChars[(n % 10) + 1]>>

ReadingFields ==
    {"uom", "meterNumber", "rawConsumption", "port", "gallonsConsumption",
     "scaledRead"}

\* A loop body that swaps two of the consumption fields.
ParseReadingSwapped(r) ==
    IF "readDate" \notin DOMAIN r \/ "readDateTime" \notin DOMAIN r
    THEN [exc |-> "KeyError"]
    ELSE LET readDate == StrptimeMDYIp(Str(r["readDate"]) \o <<" ">>
                                        \o Str(r["readDateTime"]))
         IN  IF readDate.exc # "none" THEN [exc |-> "ValueError"]
             ELSE IF \E k \in ReadingFields : k \notin DOMAIN r
             THEN [exc |-> "KeyError"]
             ELSE [exc |-> "none",
                   reading |-> [readDateTime |-> readDate.datetime,
                                uom |-> r["uom"],
                                meterNumber |-> r["meterNumber"],
                                rawConsumption |-> r["gallonsConsumption"],
                                port |-> r["port"],
                                gallonsConsumption |-> r["rawConsumption"],
                                scaledRead |-> r["scaledRead"]]]

\* One pass of the loop body of get_usage_hourly: the Reading built from the
\* record r, or the exception raised.
ParseReading(r) ==
    IF "readDate" \notin DOMAIN r \/ "readDateTime" \notin DOMAIN r
    THEN [exc |-> "KeyError"]
    ELSE LET readDate == StrptimeMDYIp(Str(r["readDate"]) \o <<" ">>
                                        \o Str(r["readDateTime"]))
         IN  IF readDate.exc # "none" THEN [exc |-> "ValueError"]
             ELSE IF \E k \in ReadingFields : k \notin DOMAIN r
             THEN [exc |-> "KeyError"]
             ELSE [exc |-> "none",
                   reading |-> [readDateTime |-> readDate.datetime,
                                uom |-> r["uom"],
                                meterNumber |-> r["meterNumber"],
                                rawConsumption |-> r["rawConsumption"],
                                port |-> r["port"],
                                gallonsConsumption |-> r["gallonsConsumption"],
                                scaledRead |-> r["scaledRead"]]]

\* A loop that inserts each reading at the front of the list.
RECURSIVE ParseHistoryReversed(_)
ParseHistoryReversed(h) ==
    IF h = <<>> THEN [exc |-> "none", readings |-> <<>>]
    ELSE LET first == ParseHistoryReversed(SubSeq(h, 1, Len(h) - 1))
         IN  IF first.exc # "none" THEN first
             ELSE LET r == ParseReading(h[Len(h)])
                  IN  IF r.exc # "none" THEN [exc |-> r.exc, readings |-> <<>>]
                      ELSE [exc |-> "none",
                            readings |-> <<r.reading>> \o first.readings]

\* A loop that skips the records it cannot parse.
RECURSIVE ParseHistorySkipBad(_)
ParseHistorySkipBad(h) ==
    IF h = <<>> THEN [exc |-> "none", readings |-> <<>>]
    ELSE LET first == ParseHistorySkipBad(SubSeq(h, 1, Len(h) - 1))
             r == ParseReading(h[Len(h)])
         IN  IF r.exc # "none" THEN first
             ELSE [exc |-> "none", readings |-> Append(first.readings, r.reading)]

\* The loop over usageData["history"]: the readings appended so far, until a
\* record raises.
RECURSIVE ParseHistory(_)
ParseHistory(h) ==
    IF h = <<>> THEN [exc |-> "none", readings |-> <<>>]
    ELSE LET first == ParseHistory(SubSeq(h, 1, Len(h) - 1))
         IN  IF first.exc # "none" THEN first
             ELSE LET r == ParseReading(h[Len(h)])
                  IN  IF r.exc # "none" THEN [exc |-> r.exc, readings |-> <<>>]
                      ELSE [exc |-> "none",
                            readings |-> Append(first.readings, r.reading)]

\* A request whose month field holds the date in the month-day-year format.
HourlyRequestMonthOnly(s, date) ==
    [url |-> hourly_usage_url,
     headers |-> s.headers,
     body |-> [customerId |-> Str(s.customer_id),
               accountContext |->
                   [accountNumber |-> Str(s.account_number),
                    serviceId |-> Str(s.service_id)],
               month |-> StrftimeMDY(date),
               day |-> StrftimeDBY(date),
               port |-> StrInt(s.account_port)]]

\* The request get_usage_hourly posts for the day date.
HourlyRequest(s, date) ==
    LET formatted_date == StrftimeDBY(date)
    IN  [url |-> hourly_usage_url,
         headers |-> s.headers,
         body |-> [customerId |-> Str(s.customer_id),
                   accountContext |->
                       [accountNumber |-> Str(s.account_number),
                        serviceId |-> Str(s.service_id)],
                   month |-> formatted_date,
                   day |-> formatted_date,
                   port |-> StrInt(s.account_port)]]

\* The default of the parameter date of get_usage_hourly: the module global
\* today, evaluated when the def statement runs.
DefaultDate == today

\* get_usage_hourly from the request on: the POST and the parse of its response.
FetchUsage(s, date, resp) ==
    LET req == <<HourlyRequest(s, date)>>
        usageData == resp.json
    IN  IF Raises(resp)
        THEN [exc |-> "ClientError", retNone |-> FALSE,
              readings |-> <<>>, sent |-> req]
        ELSE IF "history" \notin DOMAIN usageData
        THEN [exc |-> "KeyError", retNone |-> FALSE,
              readings |-> <<>>, sent |-> req]
        ELSE LET p == ParseHistory(usageData["history"])
             IN  [exc |-> p.exc, retNone |-> FALSE,
                  readings |-> p.readings, sent |-> req]

\* A get_usage_hourly that does not look at self.loggedIn.
get_usage_hourly_unguarded(s, date, resp) == FetchUsage(s, date, resp)

\* KCWater.get_usage_hourly(date): the value returned or the exception
\* raised, and the requests issued.  self is only read.
get_usage_hourly(s, date, resp) ==
    IF ~s.loggedIn
    THEN [exc |-> "none", retNone |-> TRUE, readings |-> <<>>, sent |-> <<>>]
    ELSE FetchUsage(s, date, resp)

(***************************************************************************)
(* The charge-date filter.                                                 *)
(***************************************************************************)
AM == <<"A", "M">>

PM == <<"P", "M">>

\* A comparison with today the wrong way round.
ValidDateInverted(d) == DateOf(d) > Ordinal(today)

\* valid_date: the date of d is before the module global today.
ValidDate(d) == DateOf(d) < Ordinal(today)

\* A cutoff at the start of the hour read.
CutoffSameHour(d, d_hour) == d + Hours(d_hour)

\* d + timedelta(hours=d_hour + 1): the end of the hour read.
Cutoff(d, d_hour) == d + Hours(d_hour + 1)

\* d_hour: the hour of the split readDateTime, 12 added unless it is AM.
d_hour(time_split) ==
    IF time_split[2] = AM
    THEN ParseInt(time_split[1])
    ELSE ParseInt(time_split[1]) + 12

\* valid_charge_date(history_obj), reading the module globals today and now:
\* the boolean returned, or the exception raised.
valid_charge_date(obj) ==
    IF "chargeDateRaw" \notin DOMAIN obj THEN [exc |-> "KeyError", val |-> FALSE]
    ELSE LET date_string == obj["chargeDateRaw"]
             d1 == StrptimeDBY(date_string)
             d2 == StrptimeMDY(date_string)
         IN  IF date_string = None THEN [exc |-> "TypeError", val |-> FALSE]
             ELSE IF d1.exc # "none" /\ d2.exc # "none"
             THEN [exc |-> "ValueError", val |-> FALSE]
             ELSE LET date == IF d1.exc = "none" THEN d1.date ELSE d2.date
                      d == DateTime(date, 0, 0)
                      valid_date == ValidDate(d)
                  IN  IF DateOf(d) # Ordinal(today)
                      THEN [exc |-> "none", val |-> valid_date]
                      ELSE IF "readDateTime" \notin DOMAIN obj
                      THEN [exc |-> "KeyError", val |-> FALSE]
                      ELSE IF ~Truthy(obj["readDateTime"])
                      THEN [exc |-> "none", val |-> valid_date]
                      ELSE LET time_split == Split(obj["readDateTime"], " ")
                           IN  IF Len(time_split) < 2
                               THEN [exc |-> "IndexError", val |-> FALSE]
                               ELSE IF ParseInt(time_split[1]) = NoInt
                               THEN [exc |-> "ValueError", val |-> FALSE]
                               ELSE [exc |-> "none",
                                     val |-> Cutoff(d, d_hour(time_split)) <= now]

\* strip_future_data(dataset): list(filter(valid_charge_date, dataset)).  The
\* first record on which valid_charge_date raises ends the call.
strip_future_data(ds) ==
    IF \E i \in 1..Len(ds) : valid_charge_date(ds[i]).exc # "none"
    THEN LET k == CHOOSE i \in 1..Len(ds) :
                      /\ valid_charge_date(ds[i]).exc # "none"
                      /\ \A j \in 1..(i - 1) : valid_charge_date(ds[j]).exc = "none"
         IN  [exc |-> valid_charge_date(ds[k]).exc, out |-> <<>>]
    ELSE [exc |-> "none",
          out |-> SelectSeq(ds, LAMBDA r : valid_charge_date(r).val)]

(***************************************************************************)
(* The inputs of the operations.                                           *)
(***************************************************************************)
TokA == <<"t", "A">>

TokB == <<"t", "B">>

Cust1 == <<"c", "1">>

Svc1 == <<"s", "1">>

Svc2 == <<"s", "2">>

Acct1 == <<"a", "1">>

Failure == [raises |-> TRUE, json |-> EmptyDict]

Ok(json) == [raises |-> FALSE, json |-> json]

TokenJson(t, c) == [access_token |-> t, user |-> [customerId |-> c]]

InfoJson(sv, ac) ==
    [accountSummaryType |-> [services |-> <<[serviceId |-> sv]>>],
     accountContext |-> [accountNumber |-> ac]]

WellFormedToken == {Ok(TokenJson(t, Cust1)) : t \in {TokA, TokB}}

WellFormedInfo == {Ok(InfoJson(Svc1, Acct1))}

TokenResponses ==
    WellFormedToken
      \cup {Ok(TokenJson(TokA, None)), Ok(TokenJson(None, Cust1))}
      \cup {Failure,
            Ok([user |-> [customerId |-> Cust1]]),
            Ok([access_token |-> TokB]),
            Ok([access_token |-> TokB, user |-> EmptyDict])}

InfoResponses ==
    WellFormedInfo
      \cup {Ok(InfoJson(None, Acct1)), Ok(InfoJson(Svc1, None))}
      \cup {Failure,
            Ok(EmptyDict),
            Ok([accountSummaryType |-> [services |-> <<>>],
                accountContext |-> [accountNumber |-> Acct1]]),
            Ok([accountSummaryType |-> [services |-> <<EmptyDict>>],
                accountContext |-> [accountNumber |-> Acct1]]),
            Ok([accountSummaryType |-> [services |-> <<[serviceId |-> Svc2]>>]])}

LoadDates == {[year |-> 2024, month |-> 12, day |-> 31]}

ReadDate == [year |-> 2024, month |-> 1, day |-> 15]

\* "<hour> <AM|PM>"
TimeString(h, mer) == StrInt(h) \o <<" ">> \o mer

\* A history record of the hourly-usage response.
Record(date, time, meter) ==
    [readDate |-> date, readDateTime |-> time, uom |-> <<"G", "A", "L">>,
     meterNumber |-> meter, gallonsConsumption |-> <<"5", "0">>,
     rawConsumption |-> <<"1", "0", "0", "0">>,
     scaledRead |-> <<"1", "0", "5", "0">>, port |-> <<"1">>]

\* r with the key k deleted
Without(r, k) == [x \in DOMAIN r \ {k} |-> r[x]]

Meter == <<"1", "2", "3">>

Rec7AM == Record(StrftimeMDY(ReadDate), TimeString(7, AM), Meter)

WellFormedRecords ==
    {Rec7AM,
     Record(StrftimeMDY(ReadDate), TimeString(12, AM), Meter),
     Record(StrftimeMDY(ReadDate), TimeString(12, PM), None),
     Record(StrftimeMDY(ReadDate), TimeString(3, PM), Meter)}

UnparsableRecords ==
    {Record(StrftimeMDY(ReadDate), TimeString(13, PM), Meter)}

IncompleteRecords == {Without(Rec7AM, k) : k \in {"meterNumber", "uom"}}

AllRecords == WellFormedRecords \cup UnparsableRecords \cup IncompleteRecords

FewRecords == {Rec7AM, Without(Rec7AM, "uom")}

\* The sequences over S of length at most n
SeqsUpTo(S, n) == UNION {[1..k -> S] : k \in 0..n}

UsageResponses(records) ==
    {Failure, Ok(EmptyDict)}
      \cup {Ok([history |-> h]) : h \in SeqsUpTo(records, MaxHist)}

FewUsage == UsageResponses(FewRecords)

AllUsage == UsageResponses(AllRecords)

\* The charge dates of the filter's records: around the load date, and the
\* same day of another month and of another year.
ChargeDates ==
    {[year |-> 2024, month |-> 12, day |-> 30],
     [year |-> 2024, month |-> 12, day |-> 31],
     [year |-> 2025, month |-> 1, day |-> 1],
     [year |-> 2024, month |-> 11, day |-> 30],
     [year |-> 2023, month |-> 12, day |-> 31]}

ChargeDateStrings ==
    {StrftimeDBY(d) : d \in ChargeDates} \cup {StrftimeMDY(d) : d \in ChargeDates}
      \cup {Pad(2024, 4) \o <<"-">> \o Pad(12, 2) \o <<"-">> \o Pad(31, 2)}

ReadTimes ==
    {TimeString(h, mer) : h \in 1..12, mer \in {AM, PM}}
      \cup {None, <<>>, <<"7", "A", "M">>, <<"x", " ", "P", "M">>}

\* The records of the datasets given to strip_future_data: charged the day
\* before the load date, on it (with an hour, with an empty readDateTime,
\* without readDateTime) and the day after.
StripObjs ==
    {[chargeDateRaw |-> StrftimeDBY([year |-> 2024, month |-> 12, day |-> 30]),
      readDateTime |-> TimeString(7, AM)],
     [chargeDateRaw |-> StrftimeMDY([year |-> 2024, month |-> 12, day |-> 31]),
      readDateTime |-> TimeString(3, PM)],
     [chargeDateRaw |-> StrftimeDBY([year |-> 2024, month |-> 12, day |-> 31]),
      readDateTime |-> <<>>],
     [chargeDateRaw |-> StrftimeDBY([year |-> 2024, month |-> 12, day |-> 31])],
     [chargeDateRaw |-> StrftimeMDY([year |-> 2025, month |-> 1, day |-> 1]),
      readDateTime |-> TimeString(1, AM)]}

Datasets == SeqsUpTo(StripObjs, MaxData)

\* The records given to valid_charge_date: with and without readDateTime.
HistoryObjs ==
    {[chargeDateRaw |-> c, readDateTime |-> t] :
        c \in ChargeDateStrings, t \in ReadTimes}
      \cup {[chargeDateRaw |-> c] : c \in ChargeDateStrings}
      \cup {[readDateTime |-> TimeString(7, AM)]}

ExplicitDates == {[year |-> 2024, month |-> 1, day |-> 5]}

(***************************************************************************)
(* The state machine.                                                      *)
(***************************************************************************)
NoCall ==
    [op |-> "none", exc |-> "none", retNone |-> FALSE, readings |-> <<>>,
     defaulted |-> FALSE, date |-> ReadDate, resps |-> <<>>]

NotSettled == [exc |-> "none", val |-> FALSE, called |-> FALSE]

NotStripped == [exc |-> "none", out |-> <<>>, passes |-> 0]

\* Module load (lines 27-30) and KCWater.__init__.
Load(instants) ==
    /\ today \in LoadDates
    /\ clock = today
    /\ now \in instants
    /\ loggedIn = NewClient.loggedIn
    /\ headers = NewClient.headers
    /\ account_number = NewClient.account_number
    /\ customer_id = NewClient.customer_id
    /\ service_id = NewClient.service_id
    /\ access_token = NewClient.access_token
    /\ account_port = NewClient.account_port
    /\ sent = <<>>
    /\ call = NoCall
    /\ history_obj = EmptyDict
    /\ settled = NotSettled
    /\ dataset = <<>>
    /\ stripped = NotStripped

Store(s) ==
    /\ loggedIn' = s.loggedIn
    /\ headers' = s.headers
    /\ account_number' = s.account_number
    /\ customer_id' = s.customer_id
    /\ service_id' = s.service_id
    /\ access_token' = s.access_token
    /\ account_port' = s.account_port

\* await client.login()
Login(tokens, infos) ==
    \E tokenResp \in tokens, infoResp \in infos :
        LET r == login(Self, tokenResp, infoResp)
        IN  /\ Store(r.self)
            /\ sent' = r.sent
            /\ call' = [op |-> "login", exc |-> r.exc, retNone |-> FALSE,
                        readings |-> <<>>, defaulted |-> FALSE,
                        date |-> ReadDate,
                        resps |-> <<tokenResp, infoResp>>]
            /\ UNCHANGED <<globals, clock, filter>>

\* await client.get_usage_hourly() and await client.get_usage_hourly(date)
GetUsageHourly(dates, responses) ==
    \E defaulted \in BOOLEAN, resp \in responses :
        \E date \in IF defaulted THEN {DefaultDate} ELSE dates :
            LET r == get_usage_hourly(Self, date, resp)
            IN  /\ sent' = r.sent
                /\ call' = [op |-> "get_usage_hourly", exc |-> r.exc,
                            retNone |-> r.retNone, readings |-> r.readings,
                            defaulted |-> defaulted, date |-> date,
                            resps |-> <<resp>>]
                /\ UNCHANGED <<session, globals, clock, filter>>

\* The calendar date advances while the process runs.
Tick ==
    /\ Ordinal(clock) - Ordinal(today) < MaxDays
    /\ clock' = NextDay(clock)
    /\ UNCHANGED <<session, globals, sent, call, filter>>

\* valid_charge_date(history_obj) on the record drawn at the start
ValidChargeDate ==
    /\ ~settled.called
    /\ settled' = [exc |-> valid_charge_date(history_obj).exc,
                   val |-> valid_charge_date(history_obj).val,
                   called |-> TRUE]
    /\ UNCHANGED <<session, globals, clock, sent, call, history_obj,
                   dataset, stripped>>

\* strip_future_data(dataset) on the dataset drawn at the start
StripFutureData ==
    /\ stripped.passes = 0
    /\ stripped' = [exc |-> strip_future_data(dataset).exc,
                    out |-> strip_future_data(dataset).out,
                    passes |-> 1]
    /\ UNCHANGED <<session, globals, clock, sent, call, history_obj, settled,
                   dataset>>

\* strip_future_data applied to the list it returned
StripAgain ==
    /\ stripped.passes = 1
    /\ stripped.exc = "none"
    /\ dataset' = stripped.out
    /\ stripped' = [exc |-> strip_future_data(stripped.out).exc,
                    out |-> strip_future_data(stripped.out).out,
                    passes |-> 2]
    /\ UNCHANGED <<session, globals, clock, sent, call, history_obj, settled>>

\* The client: every outcome of login, a few hourly-usage responses.
Init == Load({DateTime(today, 0, 0)})

Next ==
    \/ Login(TokenResponses, InfoResponses)
    \/ GetUsageHourly(ExplicitDates, FewUsage)
    \/ Tick

Spec == Init /\ [][Next]_vars

\* The parse of the hourly-usage response: every kind of history record.
ParseNext ==
    \/ Login({Ok(TokenJson(TokA, Cust1)), Failure}, WellFormedInfo)
    \/ GetUsageHourly({}, AllUsage)

SpecParse == Init /\ [][ParseNext]_vars

\* The filter: the module is loaded at any instant of the day (now may be
\* read just after midnight of the day today was read on) and
\* valid_charge_date is applied to one record.
DayInstants ==
    {DateTime(today, h, t) : h \in 0..23, t \in 0..(TicksPerHour - 1)}
      \cup {DateTime(NextDay(today), 0, 0)}

FilterLoad(objs, datasets) ==
    /\ today \in LoadDates
    /\ clock = today
    /\ now \in DayInstants
    /\ loggedIn = NewClient.loggedIn
    /\ headers = NewClient.headers
    /\ account_number = NewClient.account_number
    /\ customer_id = NewClient.customer_id
    /\ service_id = NewClient.service_id
    /\ access_token = NewClient.access_token
    /\ account_port = NewClient.account_port
    /\ sent = <<>>
    /\ call = NoCall
    /\ history_obj \in objs
    /\ settled = NotSettled
    /\ dataset \in datasets
    /\ stripped = NotStripped

FilterInit == FilterLoad(HistoryObjs, {<<>>})

FilterNext == ValidChargeDate

SpecFilter == FilterInit /\ [][FilterNext]_vars

\* The filter over a dataset: strip_future_data is applied to a dataset, and
\* then to the list it returned.
StripInit == FilterLoad({EmptyDict}, Datasets)

StripNext ==
    \/ StripFutureData
    \/ StripAgain

SpecStrip == StripInit /\ [][StripNext]_vars

(***************************************************************************)
(* The claims.                                                             *)
(***************************************************************************)
Identifiers == <<access_token, customer_id, account_number, service_id>>

\* The last operation was get_usage_hourly and its response carried a
\* history array.
HasHistory ==
    /\ call.op = "get_usage_hourly"
    /\ ~call.resps[1].raises
    /\ "history" \in DOMAIN call.resps[1].json

History == call.resps[1].json["history"]

\* The step is a get_usage_hourly call: the only operation that leaves a
\* call record of that name, and every other step leaves the record as it is.
HourlyStep == call'.op = "get_usage_hourly" /\ call' # call

\* C1: on a client whose loggedIn is false, get_usage_hourly issues no HTTP
\* request, returns None without raising, and leaves every session field
\* unchanged.
C1_NotLoggedInNoRequest ==
    [][(~loggedIn /\ HourlyStep)
         => (sent' = <<>> /\ call'.retNone /\ call'.exc = "none"
             /\ call'.readings = <<>> /\ UNCHANGED session)]_vars

C1_Witness ==
    /\ call.op = "get_usage_hourly"
    /\ ~loggedIn
    /\ call.retNone
    /\ sent = <<>>
    /\ access_token # None

\* C2: when both steps of login complete without error, loggedIn is true
\* exactly when the four identifiers of the two responses are all non-null,
\* and the identifiers hold the values of those responses.
C2_LoginFlagIffIdentifiers ==
    (call.op = "login" /\ call.exc = "none") =>
        LET tok == call.resps[1].json
            info == call.resps[2].json
            fromResponses ==
                <<tok["access_token"], tok["user"]["customerId"],
                  info["accountContext"]["accountNumber"],
                  info["accountSummaryType"]["services"][1]["serviceId"]>>
        IN  /\ Identifiers = fromResponses
            /\ loggedIn <=> (\A i \in 1..4 : Identifiers[i] # None)
            /\ loggedIn <=> (\A i \in 1..4 : fromResponses[i] # None)
            /\ (call.resps[1] \in WellFormedToken /\ call.resps[2] \in WellFormedInfo)
                   => loggedIn

C2_Witness ==
    /\ call.op = "login"
    /\ call.exc = "none"
    /\ loggedIn
    /\ Identifiers = <<TokB, Cust1, Acct1, Svc1>>

C2_WitnessNull ==
    /\ call.op = "login"
    /\ call.exc = "none"
    /\ ~loggedIn
    /\ access_token = None

\* C3: after a login call that fails (an exception in either step),
\* loggedIn is false, whatever preceded the call.
C3_FailedLoginNotLoggedIn ==
    (call.op = "login" /\ call.exc # "none") => ~loggedIn

\* C4: a get_usage_hourly call without a date argument sends the calendar
\* date of the moment of the call in its payload.
C4_DefaultDateIsCurrent ==
    (call.op = "get_usage_hourly" /\ call.defaulted /\ Len(sent) = 1) =>
        /\ sent[1].body.day = StrftimeDBY(clock)
        /\ sent[1].body.month = StrftimeDBY(clock)

RequiredFields ==
    {"readDate", "readDateTime", "uom", "gallonsConsumption", "rawConsumption",
     "scaledRead", "port"}

\* The record carries every required field, with a date and an hour that a
\* well-formed record carries.
RequiredWellFormed(r) ==
    /\ RequiredFields \subseteq DOMAIN r
    /\ \E w \in WellFormedRecords :
           w.readDate = r.readDate /\ w.readDateTime = r.readDateTime

\* C5: a history whose records carry every field but, for some, meterNumber
\* is parsed without failing the call, one Reading per record.
C5_MeterNumberOptional ==
    (HasHistory /\ loggedIn
       /\ \A i \in 1..Len(History) : RequiredWellFormed(History[i]))
        => (call.exc = "none" /\ Len(call.readings) = Len(History))

\* C6: a successful get_usage_hourly call returns one Reading per record of
\* the history array, the i-th from the i-th record, from one request.
C6_OneReadingPerRecord ==
    (HasHistory /\ call.exc = "none" /\ ~call.retNone) =>
        /\ Len(sent) = 1
        /\ sent[1].url = hourly_usage_url
        /\ Len(call.readings) = Len(History)
        /\ \A i \in 1..Len(call.readings) :
               /\ call.readings[i].readDateTime
                      = StrptimeMDYIp(History[i].readDate \o <<" ">>
                                       \o History[i].readDateTime).datetime
               /\ call.readings[i].meterNumber = History[i].meterNumber

C6_Witness ==
    /\ HasHistory
    /\ call.exc = "none"
    /\ ~call.retNone
    /\ Len(call.readings) = 2
    /\ History[1] # History[2]
    /\ call.readings[1] # call.readings[2]

\* The record lacks a required field or carries an hour that cannot be parsed.
BadRecord(r) ==
    \/ ~(RequiredFields \subseteq DOMAIN r)
    \/ r \in UnparsableRecords

\* C7: when a record of the history array, at any position, lacks a required
\* field or has an unparsable date and hour, the call raises, returns no
\* Reading, and leaves the session fields unchanged.
C7_BadRecordFailsCall ==
    [][(loggedIn /\ HourlyStep
          /\ ~call'.resps[1].raises
          /\ "history" \in DOMAIN call'.resps[1].json
          /\ \E i \in 1..Len(call'.resps[1].json["history"]) :
                 BadRecord(call'.resps[1].json["history"][i]))
         => (call'.exc # "none" /\ call'.readings = <<>> /\ ~call'.retNone
             /\ UNCHANGED session)]_vars

C7_Witness ==
    /\ HasHistory
    /\ loggedIn
    /\ Len(History) = 2
    /\ History[1] \in WellFormedRecords
    /\ BadRecord(History[2])
    /\ call.exc # "none"
    /\ call.readings = <<>>

\* The hour of the day of a 12-hour clock reading.
Clock12(h, mer) ==
    IF mer = AM THEN (IF h = 12 THEN 0 ELSE h)
    ELSE (IF h = 12 THEN 12 ELSE h + 12)

\* C8: the Reading of a well-formed record has readDateTime at the record's
\* readDate and at the hour of its readDateTime read as a 12-hour clock, and
\* the other fields equal to the record's.
C8_ReadingFromRecord ==
    (HasHistory /\ call.exc = "none" /\ ~call.retNone) =>
        /\ Len(call.readings) = Len(History)
        /\ \A i \in 1..Len(call.readings) :
               LET r == History[i]
                   reading == call.readings[i]
               IN  /\ \E h \in 1..12, mer \in {AM, PM} :
                          /\ r.readDate = StrftimeMDY(ReadDate)
                          /\ r.readDateTime = TimeString(h, mer)
                          /\ reading.readDateTime
                                 = DateTime(ReadDate, Clock12(h, mer), 0)
                   /\ reading.uom = r.uom
                   /\ reading.meterNumber = r.meterNumber
                   /\ reading.gallonsConsumption = r.gallonsConsumption
                   /\ reading.rawConsumption = r.rawConsumption
                   /\ reading.scaledRead = r.scaledRead
                   /\ reading.port = r.port

C8_Witness ==
    /\ HasHistory
    /\ call.exc = "none"
    /\ Len(call.readings) = 2
    /\ History[1].readDateTime = TimeString(12, AM)
    /\ History[2].readDateTime = TimeString(12, PM)
    /\ call.readings[1].readDateTime = DateTime(ReadDate, 0, 0)
    /\ call.readings[2].readDateTime = DateTime(ReadDate, 12, 0)
    /\ call.readings[2].meterNumber = None

\* The record given to valid_charge_date carries the date d as its
\* chargeDateRaw, in either format.
ChargedOn(d) ==
    /\ "chargeDateRaw" \in DOMAIN history_obj
    /\ history_obj["chargeDateRaw"] \in {StrftimeDBY(d), StrftimeMDY(d)}

\* C9: for a record charged today with readDateTime "<h> AM" or "<h> PM",
\* valid_charge_date returns true exactly when now is at or after today's
\* midnight plus h hours, plus 12 if PM, plus one further hour.
C9_TodayCutoff ==
    settled.called =>
        \A h \in 1..12, mer \in {AM, PM} :
            (/\ ChargedOn(today)
             /\ "readDateTime" \in DOMAIN history_obj
             /\ history_obj["readDateTime"] = TimeString(h, mer))
                => /\ settled.exc = "none"
                   /\ settled.val <=>
                          (now >= DateTime(today, 0, 0)
                                    + (h + (IF mer = PM THEN 12 ELSE 0) + 1)
                                        * TicksPerHour)

C9_Witness ==
    /\ settled.called
    /\ ChargedOn(today)
    /\ "readDateTime" \in DOMAIN history_obj
    /\ history_obj["readDateTime"] = TimeString(3, PM)
    /\ now = DateTime(today, 16, 0)
    /\ settled.val

C9_WitnessBefore ==
    /\ settled.called
    /\ ChargedOn(today)
    /\ "readDateTime" \in DOMAIN history_obj
    /\ history_obj["readDateTime"] = TimeString(3, PM)
    /\ now = DateTime(today, 15, TicksPerHour - 1)
    /\ ~settled.val

\* The calendar order of two dates.
DateBefore(a, b) ==
    \/ a.year < b.year
    \/ a.year = b.year /\ a.month < b.month
    \/ a.year = b.year /\ a.month = b.month /\ a.day < b.day

\* C10: for a record charged on a date other than today, valid_charge_date
\* returns true when the date is before today and false when it is after,
\* whatever readDateTime is and whether or not the record carries one.
C10_OtherDayByDate ==
    settled.called =>
        \A d \in ChargeDates :
            (d # today /\ ChargedOn(d))
                => /\ settled.exc = "none"
                   /\ settled.val <=> DateBefore(d, today)

C10_Witness ==
    /\ settled.called
    /\ ChargedOn([year |-> 2024, month |-> 12, day |-> 30])
    /\ "readDateTime" \notin DOMAIN history_obj
    /\ settled.exc = "none"
    /\ settled.val

C10_WitnessAfter ==
    /\ settled.called
    /\ ChargedOn([year |-> 2025, month |-> 1, day |-> 1])
    /\ "readDateTime" \in DOMAIN history_obj
    /\ history_obj["readDateTime"] = TimeString(1, AM)
    /\ settled.exc = "none"
    /\ ~settled.val

\* The record given to valid_charge_date has no readDateTime, or an empty one.
NoReadDateTime(obj) ==
    \/ "readDateTime" \notin DOMAIN obj
    \/ obj["readDateTime"] \in {None, <<>>}

\* C11: for a record charged today whose readDateTime is absent or empty,
\* valid_charge_date returns false and does not raise, at every instant.
C11_TodayWithoutTime ==
    (settled.called /\ ChargedOn(today) /\ NoReadDateTime(history_obj))
        => (settled.exc = "none" /\ ~settled.val)

\* The record has a charge date of a known format and a readDateTime that is
\* absent, empty or "<h> AM" or "<h> PM".
Filterable(obj) ==
    /\ "chargeDateRaw" \in DOMAIN obj
    /\ \E d \in ChargeDates :
           obj["chargeDateRaw"] \in {StrftimeDBY(d), StrftimeMDY(d)}
    /\ \/ NoReadDateTime(obj)
       \/ \E h \in 1..12, mer \in {AM, PM} :
              obj["readDateTime"] = TimeString(h, mer)

\* C12: strip_future_data returns the records for which valid_charge_date is
\* true (false for a record of today without readDateTime), in their order,
\* and applied to the list it returned it returns that list.
C12_StripIsFilter ==
    (stripped.passes > 0 /\ \A i \in 1..Len(dataset) : Filterable(dataset[i]))
        => /\ stripped.exc = "none"
           /\ stripped.passes = 1 =>
                  stripped.out
                      = SelectSeq(dataset, LAMBDA r : valid_charge_date(r).val)
           /\ stripped.passes = 2 => stripped.out = dataset

\* The same record with its charge date written in the other format.
InOtherFormat(obj, d) ==
    [obj EXCEPT !["chargeDateRaw"] =
        IF obj["chargeDateRaw"] = StrftimeDBY(d)
        THEN StrftimeMDY(d) ELSE StrftimeDBY(d)]

\* C13: valid_charge_date reads a chargeDateRaw of either format as the same
\* date, with the same outcome, and raises on one of neither format.
C13_TwoDateFormats ==
    settled.called =>
        /\ \A d \in ChargeDates :
               ChargedOn(d) =>
                   /\ StrptimeDBY(StrftimeDBY(d)).exc = "none"
                   /\ StrptimeDBY(StrftimeDBY(d)).date = d
                   /\ StrptimeDBY(StrftimeMDY(d)).exc = "ValueError"
                   /\ StrptimeMDY(StrftimeMDY(d)).exc = "none"
                   /\ StrptimeMDY(StrftimeMDY(d)).date = d
                   /\ settled.exc = valid_charge_date(InOtherFormat(history_obj, d)).exc
                   /\ settled.val = valid_charge_date(InOtherFormat(history_obj, d)).val
                   /\ ("readDateTime" \notin DOMAIN history_obj /\ d # today)
                          => (settled.exc = "none"
                              /\ settled.val <=> DateBefore(d, today))
        /\ ("chargeDateRaw" \in DOMAIN history_obj
              /\ ~(\E d \in ChargeDates : ChargedOn(d))
              /\ history_obj["chargeDateRaw"] # None)
               => (settled.exc = "ValueError" /\ ~settled.val)

C13_Witness ==
    /\ settled.called
    /\ "chargeDateRaw" \in DOMAIN history_obj
    /\ history_obj["chargeDateRaw"]
           = StrftimeMDY([year |-> 2024, month |-> 12, day |-> 30])
    /\ settled.exc = "none"
    /\ settled.val

C13_WitnessNeither ==
    /\ settled.called
    /\ "chargeDateRaw" \in DOMAIN history_obj
    /\ ~(\E d \in ChargeDates : ChargedOn(d))
    /\ settled.exc = "ValueError"

\* C17: the hour valid_charge_date derives from "<h> AM" or "<h> PM" is the
\* hour of the 12-hour clock reading, and lies in 0..23.
C17_HourIsClockHour ==
    settled.called =>
        \A h \in 1..12, mer \in {AM, PM} :
            (/\ ChargedOn(today)
             /\ "readDateTime" \in DOMAIN history_obj
             /\ history_obj["readDateTime"] = TimeString(h, mer))
                => /\ d_hour(Split(history_obj["readDateTime"], " ")) \in 0..23
                   /\ StrptimeMDYIp(StrftimeMDY(today) \o <<" ">>
                                     \o history_obj["readDateTime"]).datetime
                          = DateTime(today, 0, 0)
                              + Hours(d_hour(Split(history_obj["readDateTime"], " ")))

\* The last operation was get_usage_hourly and it posted its request.
HourlyRequested == call.op = "get_usage_hourly" /\ Len(sent) = 1

\* C14: loggedIn implies that the four identifiers are non-null, and no
\* hourly-usage request carries a null identifier.
C14_LoggedInHasIdentifiers ==
    /\ loggedIn => \A i \in 1..4 : Identifiers[i] # None
    /\ HourlyRequested =>
           /\ sent[1].body.customerId # Str(None)
           /\ sent[1].body.accountContext.accountNumber # Str(None)
           /\ sent[1].body.accountContext.serviceId # Str(None)
           /\ sent[1].headers["Authorization"] # Bearer \o Str(None)

\* C15: every hourly-usage request carries the Authorization header "Bearer "
\* followed by the access token stored on the client.
C15_RequestBearsStoredToken ==
    HourlyRequested =>
        /\ "Authorization" \in DOMAIN sent[1].headers
        /\ sent[1].headers["Authorization"] = Bearer \o Str(access_token)

\* C16 as stated: no step takes loggedIn from true to false, and on a
\* logged-in client no step takes an identifier from non-null to null.
C16_NeverReset ==
    [][/\ loggedIn => loggedIn'
       /\ \A i \in 1..4 :
              (loggedIn /\ Identifiers[i] # None) => Identifiers'[i] # None]_vars

\* The step is a login call: the only operation that leaves a call record of
\* that name without the calendar date advancing.
LoginStep == call'.op = "login" /\ clock' = clock

\* The token response lets _get_token run to its end.
TokenStepOk(resp) ==
    /\ ~resp.raises
    /\ "access_token" \in DOMAIN resp.json
    /\ "user" \in DOMAIN resp.json
    /\ "customerId" \in DOMAIN resp.json["user"]

\* The response of the login call carries null for the i-th identifier.
CarriesNull(resps, i) ==
    LET tok == resps[1].json
        info == resps[2].json
    IN  /\ ~resps[1].raises
        /\ CASE i = 1 -> "access_token" \in DOMAIN tok
                           /\ tok["access_token"] = None
             [] i = 2 -> TokenStepOk(resps[1])
                           /\ tok["user"]["customerId"] = None
             [] i = 3 -> /\ TokenStepOk(resps[1]) /\ ~resps[2].raises
                         /\ "accountContext" \in DOMAIN info
                         /\ "accountNumber" \in DOMAIN info["accountContext"]
                         /\ info["accountContext"]["accountNumber"] = None
             [] i = 4 -> /\ TokenStepOk(resps[1]) /\ ~resps[2].raises
                         /\ "accountSummaryType" \in DOMAIN info
                         /\ "services" \in DOMAIN info["accountSummaryType"]
                         /\ Len(info["accountSummaryType"]["services"]) > 0
                         /\ "serviceId" \in
                                DOMAIN info["accountSummaryType"]["services"][1]
                         /\ info["accountSummaryType"]["services"][1]["serviceId"]
                                = None

\* C16: the session is reset by login alone and only from its responses.
\* loggedIn goes from true to false only in a login whose two steps complete
\* with a null identifier; an identifier goes from non-null to null only in a
\* login whose response carries null for it; get_usage_hourly changes no
\* session field.
C16_ResetOnlyByLogin ==
    [][/\ (loggedIn /\ ~loggedIn')
              => /\ LoginStep
                 /\ call'.exc = "none"
                 /\ \E i \in 1..4 : Identifiers'[i] = None
       /\ \A i \in 1..4 :
              (Identifiers[i] # None /\ Identifiers'[i] = None)
                  => (LoginStep /\ CarriesNull(call'.resps, i))
       /\ HourlyStep => UNCHANGED session]_vars

C16_Witness ==
    /\ call.op = "login"
    /\ call.exc = "none"
    /\ ~loggedIn
    /\ Identifiers = <<None, Cust1, Acct1, Svc1>>

\* C18: login posts one token request first and then, exactly when the token
\* step completed, one customer-info request carrying the customerId and the
\* Bearer token of that token response; nothing else is posted.
C18_LoginRequestOrder ==
    call.op = "login" =>
        /\ Len(sent) \in {1, 2}
        /\ sent[1] = TokenRequest
        /\ Len(sent) = 2 <=> TokenStepOk(call.resps[1])
        /\ Len(sent) = 2 =>
               LET tok == call.resps[1].json
               IN  /\ sent[2].url = customer_info_url
                   /\ sent[2].body = [customerId |-> Str(tok["user"]["customerId"])]
                   /\ sent[2].headers["Authorization"]
                          = Bearer \o Str(tok["access_token"])

C18_Witness ==
    /\ call.op = "login"
    /\ Len(sent) = 2
    /\ sent[2].body.customerId = Cust1
    /\ sent[2].headers["Authorization"] = Bearer \o TokB

C18_WitnessTokenFailed ==
    /\ call.op = "login"
    /\ call.exc # "none"
    /\ Len(sent) = 1

\* C19: a login whose customer-info step fails after its token step leaves
\* access_token, customer_id and the Bearer header as the token step stored
\* them, leaves account_number, loggedIn and account_port as they were, and
\* changes service_id only to the serviceId its response carried.
C19_NoRollback ==
    [][(LoginStep /\ Len(sent') = 2 /\ call'.exc # "none")
         => LET tok == call'.resps[1].json
                info == call'.resps[2].json
            IN  /\ TokenStepOk(call'.resps[1])
                /\ access_token' = tok["access_token"]
                /\ customer_id' = tok["user"]["customerId"]
                /\ headers'["Authorization"] = Bearer \o Str(tok["access_token"])
                /\ account_number' = account_number
                /\ loggedIn' = loggedIn
                /\ account_port' = account_port
                /\ service_id' # service_id
                       => /\ ~call'.resps[2].raises
                          /\ "accountSummaryType" \in DOMAIN info
                          /\ service_id'
                                 = info["accountSummaryType"]["services"][1]["serviceId"]]_vars

C19_Witness ==
    /\ call.op = "login"
    /\ call.exc = "KeyError"
    /\ Len(sent) = 2
    /\ Identifiers = <<TokB, Cust1, Acct1, Svc2>>
    /\ headers["Authorization"] = Bearer \o TokB

\* C20: every hourly-usage request carries the stored customerId,
\* accountNumber and serviceId, the same day-ShortMonth-Year string of the
\* date asked for in month and in day, and port "1"; account_port stays 1.
C20_HourlyRequestBody ==
    /\ account_port = NewClient.account_port
    /\ HourlyRequested =>
           /\ sent[1].url = hourly_usage_url
           /\ sent[1].body.customerId = Str(customer_id)
           /\ sent[1].body.accountContext
                  = [accountNumber |-> Str(account_number),
                     serviceId |-> Str(service_id)]
           /\ sent[1].body.month = StrftimeDBY(call.date)
           /\ sent[1].body.day = sent[1].body.month
           /\ sent[1].body.port = <<"1">>

C20_Witness ==
    /\ HourlyRequested
    /\ ~call.defaulted
    /\ sent[1].body.customerId = Cust1
    /\ sent[1].body.day = StrftimeDBY(call.date)

====
